---------------------------- MODULE Spec2Model ----------------------------
(***************************************************************************)
(* Model of the ews-gis-assets pipeline: the content hasher / change gate  *)
(* (helpers.py), the permitting normalizer (noe.py), the obstacle fetch,   *)
(* cache and parser (austro_control.py) and the two orchestrators          *)
(* (main.py, download_austro_control.py).                                  *)
(*                                                                         *)
(* Text is a sequence of one-character strings, so that strip(), split()   *)
(* and the numeric parsers are computed and not assumed (a run of          *)
(* characters that no operation inspects may stand as one element).  A    *)
(* cell of a data frame is a tagged record: [t |-> "null"],                *)
(* [t |-> "str", s |-> ..], [t |-> "int", n |-> ..], [t |-> "num",         *)
(* q |-> ..] (a float in units of 10^-6), [t |-> "date", d |-> <<y, m,     *)
(* d>>] and [t |-> "point", x, y] (a geometry, coordinates in units of     *)
(* 10^-7 degree).                                                          *)
(***************************************************************************)
EXTENDS Integers, Sequences, FiniteSets, TLC

VARIABLES
    hashFile,     \* data/<name>.hash of the running orchestrator: NoFile or its text
    geojsonFile,  \* data/<name>.geojson: NoFile or the dataset it holds
    gpkgFile,     \* data/<name>.gpkg: NoFile or the dataset it holds
    cacheFile,    \* data/LO_OBS_DS_AREA1_<id>.xml: NoFile or its bytes
    pc,           \* position of the running process
    orch,         \* which script runs: "noe" (main.py) or "icao" (download_austro_control.py)
    inp,          \* what the environment delivers to the operation in progress
    gdf,          \* the dataset in hand (None before one is produced)
    err,          \* the exception that ended the operation ("" when none)
    gateCalls,    \* calls of is_data_updated in this run
    gateResult,   \* what the last call of is_data_updated returned
    written,      \* output files written in this run
    fetched,      \* whether get_austro_control_data requested the archive in this run
    pre,          \* the files as they were when the run started
    runs,         \* runs started so far
    streak        \* successive calls of the change gate with the same dataset

vars == <<hashFile, geojsonFile, gpkgFile, cacheFile, pc, orch, inp, gdf, err,
          gateCalls, gateResult, written, fetched, pre, runs, streak>>

-----------------------------------------------------------------------------
(* Bounds of the model *)

\* rows of a dataset offered to the change gate on its own
MaxGateRows == 2
\* successive calls of the change gate on its own
MaxGateCalls == 3
\* features of a permitting feature collection
MaxRows == 2
\* parts of one vertical structure
MaxParts == 2
\* runs of an orchestrator
MaxRuns == 3
\* width in bits of the fingerprint sum (64 in pandas; narrowed for checking)
HashBits == 4

-----------------------------------------------------------------------------
(* Values *)

NoFile == [t |-> "nofile"]
\* a text file and what it holds
Text(s) == [t |-> "text", s |-> s]
None == [t |-> "none"]
Null == [t |-> "null"]
Str(s) == [t |-> "str", s |-> s]
Int_(n) == [t |-> "int", n |-> n]
Num(q) == [t |-> "num", q |-> q]
Date(d) == [t |-> "date", d |-> d]
Point(x, y) == [t |-> "point", x |-> x, y |-> y]

RECURSIVE Pow2(_)
Pow2(n) == IF n = 0 THEN 1 ELSE 2 * Pow2(n - 1)

HashMod == Pow2(HashBits)

-----------------------------------------------------------------------------
(* Text helpers: str(int), str.strip() *)

Digits == <<"0", "1", "2", "3", "4", "5", "6", "7", "8", "9">>

Whitespace == {" ", "\n", "\t"}

\* the characters of the model's texts, in code-point order
Chars == <<"\t", "\n", " ", ",", "-", ".">> \o Digits \o <<"A", "B", "W", "_", "x">>

\* runs of characters that no operation of the program looks inside
Atoms == <<"COMPLETED", "IN_CONSTRUCTION", "MODIFICATION_APPRVD", "DEMOLITION_PLANNED",
           "CONSTRUCTION_PLANNED", "CONSTRUCTION_APPRVD", "OTHER:IN_CONSTRUCTION",
           "OTHER:MODIFICATION_APPRVD", "OTHER:DEMOLITION_PLANNED",
           "OTHER:CONSTRUCTION_PLANNED", "OTHER:MODIFICATION_PLANNED",
           "OTHER:CONSTRUCTION_APPRVD", "Operating", "UnderConstruction",
           "ModificationApproved", "DemolitionPlanned", "Plan", "Approved",
           "ModificationPlanned", "WINDMILL_FARMS", "WINDMILL", "OTHER", "UNKNOWN",
           "Windpark", "WP", "WKA", "Windturbine", "Windkraftanlage", "n">>

Alphabet == Chars \o Atoms

CharCode(c) == CHOOSE i \in 1..Len(Alphabet) : Alphabet[i] = c

IsDigit(c) == \E i \in 1..10 : Digits[i] = c

DigitVal(c) == (CHOOSE i \in 1..10 : Digits[i] = c) - 1

\* str(n) of a non-negative integer
RECURSIVE DecStr(_)
DecStr(n) == IF n < 10 THEN <<Digits[n + 1]>>
             ELSE DecStr(n \div 10) \o <<Digits[(n % 10) + 1]>>

RECURSIVE LStrip(_)
LStrip(s) == IF s # <<>> /\ Head(s) \in Whitespace THEN LStrip(Tail(s)) ELSE s

RECURSIVE RStrip(_)
RStrip(s) == IF s # <<>> /\ s[Len(s)] \in Whitespace
             THEN RStrip(SubSeq(s, 1, Len(s) - 1)) ELSE s

\* str.strip()
Strip(s) == RStrip(LStrip(s))

-----------------------------------------------------------------------------
(* Content hasher: helpers.py *)

RECURSIVE StrHash(_)
StrHash(s) == IF s = <<>> THEN 5 ELSE (31 * StrHash(Tail(s)) + CharCode(Head(s))) % HashMod

\* the hash of one cell (pandas hash_array on the cell's value)
CellHash(c) ==
    CASE c.t = "null"  -> 7
      [] c.t = "int"   -> (c.n + 1) % HashMod
      [] c.t = "num"   -> (3 * c.q + 2) % HashMod
      [] c.t = "str"   -> StrHash(c.s)
      [] c.t = "date"  -> (c.d[1] + 5 * c.d[2] + 3 * c.d[3]) % HashMod
      [] c.t = "point" -> (c.x + 3 * c.y + 11) % HashMod

\* one row's hash: the index label and the cells in column order, combined
RECURSIVE CombineHash(_, _, _)
CombineHash(row, cols, acc) ==
    IF cols = <<>> THEN acc
    ELSE CombineHash(row, Tail(cols), (3 * acc + CellHash(row[Head(cols)]) + 1) % HashMod)

RowHash(frame, i) == CombineHash(frame.data[i], frame.cols, (frame.index[i] + 9) % HashMod)

RECURSIVE SumHash(_, _)
SumHash(frame, i) ==
    IF i = 0 THEN 0 ELSE (SumHash(frame, i - 1) + RowHash(frame, i)) % HashMod

\* calculate_gdf_hash: str(hash_pandas_object(gdf, index=True).sum())
calculate_gdf_hash(frame) == DecStr(SumHash(frame, Len(frame.data)))

\* is_data_updated: the value returned and the hash file left behind
is_data_updated_mut_always(frame, file) ==
    [ret |-> TRUE, file |-> Text(calculate_gdf_hash(frame))]

is_data_updated_mut_nostrip(frame, file) ==
    LET new_hash == calculate_gdf_hash(frame) IN
    IF file # NoFile /\ new_hash = file.s
    THEN [ret |-> FALSE, file |-> file]
    ELSE [ret |-> TRUE, file |-> Text(new_hash)]

is_data_updated(frame, file) ==
    LET new_hash == calculate_gdf_hash(frame) IN
    IF file # NoFile /\ new_hash = Strip(file.s)
    THEN [ret |-> FALSE, file |-> file]
    ELSE [ret |-> TRUE, file |-> Text(new_hash)]

-----------------------------------------------------------------------------
(* Parsers used by the normalizers.  A value computed once and used several *)
(* times is handed on as an operator argument.                              *)

Fail == [ok |-> FALSE]
Ok(v) == [ok |-> TRUE, v |-> v]

RECURSIVE Replace(_, _, _)
Replace(s, a, b) ==
    IF s = <<>> THEN <<>>
    ELSE <<IF Head(s) = a THEN b ELSE Head(s)>> \o Replace(Tail(s), a, b)

\* str.split(c): the tokens between the occurrences of c
RECURSIVE SplitOn(_, _)
SplitOn(s, c) ==
    IF \A i \in 1..Len(s) : s[i] # c THEN <<s>>
    ELSE LET k == CHOOSE i \in 1..Len(s) : s[i] = c /\ \A j \in 1..(i - 1) : s[j] # c
         IN <<SubSeq(s, 1, k - 1)>> \o SplitOn(SubSeq(s, k + 1, Len(s)), c)

AllDigits(s) == s # <<>> /\ \A i \in 1..Len(s) : IsDigit(s[i])

RECURSIVE DigitsVal(_)
DigitsVal(s) == IF s = <<>> THEN 0
                ELSE 10 * DigitsVal(SubSeq(s, 1, Len(s) - 1)) + DigitVal(s[Len(s)])

\* a numeral without its sign, and the sign given to a magnitude
Unsigned(b) == IF b # <<>> /\ Head(b) = "-" THEN Tail(b) ELSE b
Signed(b, mag) == IF b # <<>> /\ Head(b) = "-" THEN 0 - mag ELSE mag

IntOfStripped(b) ==
    IF AllDigits(Unsigned(b)) THEN Ok(Signed(b, DigitsVal(Unsigned(b)))) ELSE Fail

\* int(text): surrounding whitespace and a sign are accepted
ParseInt(s) == IntOfStripped(Strip(s))

RECURSIVE Pow10(_)
Pow10(n) == IF n = 0 THEN 1 ELSE 10 * Pow10(n - 1)

\* round half to even of x / 10
RoundDiv10(x) ==
    IF x % 10 < 5 THEN x \div 10
    ELSE IF x % 10 > 5 THEN (x \div 10) + 1
    ELSE IF (x \div 10) % 2 = 0 THEN x \div 10 ELSE (x \div 10) + 1

DecimalOfParts(b, ip, fp) ==
    IF AllDigits(ip) /\ Len(fp) <= 7 /\ \A i \in 1..Len(fp) : IsDigit(fp[i])
    THEN Ok(Signed(b, DigitsVal(ip) * Pow10(7) + DigitsVal(fp) * Pow10(7 - Len(fp))))
    ELSE Fail

DecimalOfTokens(b, tok) ==
    IF Len(tok) > 2 THEN Fail
    ELSE DecimalOfParts(b, tok[1], IF Len(tok) = 2 THEN tok[2] ELSE <<>>)

DecimalOfStripped(b) == DecimalOfTokens(b, SplitOn(Unsigned(b), "."))

\* float(text) in units of 10^-7; up to seven decimals are read
ParseDecimal(s) == DecimalOfStripped(Strip(s))

Round6(r) == IF r.ok THEN Ok(RoundDiv10(r.v)) ELSE Fail

\* pd.to_numeric(text).round(6), in units of 10^-6
ParseFloat(s) == Round6(ParseDecimal(s))

DaysIn(y, m) ==
    IF m \in {4, 6, 9, 11} THEN 30
    ELSE IF m = 2 THEN (IF (y % 4 = 0 /\ y % 100 # 0) \/ y % 400 = 0 THEN 29 ELSE 28)
    ELSE 31

DateOfNumbers(d, m, y) ==
    IF m \in 1..12 /\ d >= 1 /\ d <= DaysIn(y, m) THEN Ok(<<y, m, d>>) ELSE Fail

DateOfTokens(tok) ==
    IF /\ Len(tok) = 3
       /\ AllDigits(tok[1]) /\ Len(tok[1]) <= 2
       /\ AllDigits(tok[2]) /\ Len(tok[2]) <= 2
       /\ AllDigits(tok[3]) /\ Len(tok[3]) = 4
    THEN DateOfNumbers(DigitsVal(tok[1]), DigitsVal(tok[2]), DigitsVal(tok[3]))
    ELSE Fail

\* strptime(text, "%d.%m.%Y")
ParseDate(s) == DateOfTokens(SplitOn(s, "."))

-----------------------------------------------------------------------------
(* Data frames *)

Range(f) == {f[i] : i \in DOMAIN f}

Frame(cols, index, data) == [cols |-> cols, index |-> index, data |-> data]

\* the rows of s at the positions idx, in the order of idx
Select(s, idx) == [k \in 1..Len(idx) |-> s[idx[k]]]

\* the positions of 1..n that are in S, ascending
RECURSIVE Positions(_, _)
Positions(n, S) ==
    IF n = 0 THEN <<>>
    ELSE Positions(n - 1, S) \o (IF n \in S THEN <<n>> ELSE <<>>)

Returned(v) == [ret |-> v, err |-> ""]
Raised(e) == [ret |-> None, err |-> e]

-----------------------------------------------------------------------------
(* Permitting normalizer: noe.py *)

\* dtypes (noe.py lines 30-57), in declaration order; umlauts transliterated
dtypes == <<
    <<"Kennzeichen (UVP)", "category">>,
    <<"Kennzeichen (ER)", "category">>,
    <<"Rechtsmaterie", "category">>,
    <<"Betreiber", "category">>,
    <<"Vorhaben", "category">>,
    <<"Datum Genehmigungsantrag", "date">>,
    <<"Datum Entscheidung 1. Instanz (Bescheid)", "date">>,
    <<"Datum Fertigstellungsmeldung", "date">>,
    <<"Status", "category">>,
    <<"Aenderung", "category">>,
    <<"Repowering", "category">>,
    <<"Name der WKA", "category">>,
    <<"Leistung der WKA [MW]", "float">>,
    <<"Gesamtleistung [MW]", "float">>,
    <<"Gesamthoehe der WKA [m]", "float">>,
    <<"Type", "category">>,
    <<"Grundstuecks-Nummer", "category">>,
    <<"Katastralgemeinde", "category">>,
    <<"Gemeinde", "category">>,
    <<"Bezirk", "category">>,
    <<"Hauptregion", "category">>,
    <<"KG-Nummer", "int">>,
    <<"Koordinaten Laenge [WGS 84]", "float">>,
    <<"Koordinaten Breite [WGS 84]", "float">>,
    <<"Zusatzinformation", "category">>,
    <<"Stand", "category">>
>>

dtypes_keys == [i \in 1..Len(dtypes) |-> dtypes[i][1]]

ColsOfType(tag) == {dtypes[i][1] : i \in {j \in 1..Len(dtypes) : dtypes[j][2] = tag}}

int_cols == ColsOfType("int")
float_cols == ColsOfType("float")
date_cols == ColsOfType("date")
category_cols == ColsOfType("category")

\* columns dropped when present (noe.py line 27)
housekeeping_cols == {"_fulltext", "_title", "_zoomscale"}

key_cols == <<"Vorhaben", "Name der WKA",
              "Koordinaten Laenge [WGS 84]", "Koordinaten Breite [WGS 84]">>

\* the cell made of a parsed value
IntCell(r) == IF r.ok THEN Ok(Int_(r.v)) ELSE Fail
NumCell(r) == IF r.ok THEN Ok(Num(r.v)) ELSE Fail
DateCell(r) == IF r.ok THEN Ok(Date(r.v)) ELSE Fail

\* s.astype("int") of one cell: int(None) and int("x") raise
CoerceInt(c) ==
    CASE c.t = "int" -> Ok(c)
      [] c.t = "str" -> IntCell(ParseInt(c.s))
      [] OTHER -> Fail

\* pd.to_numeric(s.str.replace(",", "."), errors="raise").round(6) of one cell
CoerceFloat(c) ==
    CASE c.t = "str" -> NumCell(ParseFloat(Replace(c.s, ",", ".")))
      [] OTHER -> Ok(Null)

\* pd.to_datetime(s, errors="raise", format="%d.%m.%Y") of one cell
CoerceDate(c) ==
    CASE c.t = "str" -> DateCell(ParseDate(c.s))
      [] OTHER -> Ok(Null)

\* s.str.strip().astype("category") of one cell
CoerceCategory(c) ==
    CASE c.t = "str" -> Ok(Str(Strip(c.s)))
      [] OTHER -> Ok(Null)

Coerce(col, c) ==
    IF col \in int_cols THEN CoerceInt(c)
    ELSE IF col \in float_cols THEN CoerceFloat(c)
    ELSE IF col \in date_cols THEN CoerceDate(c)
    ELSE IF col \in category_cols THEN CoerceCategory(c)
    ELSE Ok(c)

\* every cell of the declared columns, coerced
CoerceAll(raw) ==
    [i \in 1..Len(raw) |-> [c \in Range(dtypes_keys) |-> Coerce(c, raw[i][c])]]

\* the exception of the first coercion loop that fails, "" when none does
\* (loops in the order int, float, date; noe.py lines 77-93)
CoercionError(raw, co) ==
    IF \E i \in 1..Len(raw) : \E c \in int_cols : ~co[i][c].ok
    THEN (IF \A i \in 1..Len(raw) : \A c \in int_cols : raw[i][c].t # "str"
          THEN "IntCastingNaNError"
          ELSE IF \E i \in 1..Len(raw) : \E c \in int_cols :
                      raw[i][c].t = "str" /\ ~co[i][c].ok
          THEN "ValueError" ELSE "TypeError")
    ELSE IF \E i \in 1..Len(raw) : \E c \in float_cols \cup date_cols : ~co[i][c].ok
    THEN "ValueError"
    ELSE ""

\* lexicographic order of texts by code point
RECURSIVE StrLess(_, _)
StrLess(a, b) ==
    IF b = <<>> THEN FALSE
    ELSE IF a = <<>> THEN TRUE
    ELSE IF Head(a) # Head(b) THEN CharCode(Head(a)) < CharCode(Head(b))
    ELSE StrLess(Tail(a), Tail(b))

\* order of a categorical column: categories ascending, missing values last
CatLess(a, b) ==
    IF a.t = "str" /\ b.t = "str" THEN StrLess(a.s, b.s)
    ELSE a.t = "str" /\ b.t = "null"

\* sort_values(by=["Vorhaben", "Name der WKA"]): strictly before
RowLess(r1, r2) ==
    \/ CatLess(r1["Vorhaben"], r2["Vorhaben"])
    \/ /\ r1["Vorhaben"] = r2["Vorhaben"]
       /\ CatLess(r1["Name der WKA"], r2["Name der WKA"])

\* an insertion that puts r before the rows equal to it
RECURSIVE InsertRow_mut_unstable(_, _)
InsertRow_mut_unstable(sorted, r) ==
    IF sorted = <<>> THEN <<r>>
    ELSE IF ~RowLess(Head(sorted), r) THEN <<r>> \o sorted
    ELSE <<Head(sorted)>> \o InsertRow_mut_unstable(Tail(sorted), r)

\* stable insertion of r: after every row that is not after it
RECURSIVE InsertRow(_, _)
InsertRow(sorted, r) ==
    IF sorted = <<>> THEN <<r>>
    ELSE IF RowLess(r, Head(sorted)) THEN <<r>> \o sorted
    ELSE <<Head(sorted)>> \o InsertRow(Tail(sorted), r)

RECURSIVE SortRows(_)
SortRows(rows) ==
    IF rows = <<>> THEN <<>>
    ELSE InsertRow(SortRows(SubSeq(rows, 1, Len(rows) - 1)), rows[Len(rows)])

\* key = gdf[key_cols].apply(tuple, axis=1) of one row
KeyOf(row) == [k \in 1..Len(key_cols) |-> row[key_cols[k]]]

\* key.drop_duplicates(keep="first").index: the first position of every key
drop_duplicates_mut_last(rows) ==
    LET keep == {i \in 1..Len(rows) :
                   \A j \in (i + 1)..Len(rows) : KeyOf(rows[j]) # KeyOf(rows[i])}
    IN Positions(Len(rows), keep)

drop_duplicates(rows) ==
    LET keep == {i \in 1..Len(rows) :
                   \A j \in 1..(i - 1) : KeyOf(rows[j]) # KeyOf(rows[i])}
    IN Positions(Len(rows), keep)

\* gdf[[*dtypes.keys(), "geometry"]] (noe.py line 60)
selected_columns == dtypes_keys \o <<"geometry">>

\* sort_values(...).reset_index(drop=True); return gdf (noe.py lines 125-127)
noe_return(sorted) ==
    Returned(Frame(selected_columns, [i \in 1..Len(sorted) |-> i - 1], sorted))

\* the duplicated keys and the rows kept (noe.py lines 105-122)
noe_dedup(typed) ==
    noe_return(SortRows(
        IF \E i, j \in 1..Len(typed) : j # i /\ KeyOf(typed[j]) = KeyOf(typed[i])
        THEN Select(typed, drop_duplicates(typed))
        ELSE typed))

\* the coerced columns, longitude and latitude taken from the geometry
\* (noe.py lines 77-103)
noe_typed(raw, co) ==
    noe_dedup([i \in 1..Len(raw) |->
                 [c \in Range(selected_columns) |->
                    IF c = "geometry" THEN raw[i][c]
                    ELSE IF c = "Koordinaten Laenge [WGS 84]"
                    THEN Num(RoundDiv10(raw[i]["geometry"].x))
                    ELSE IF c = "Koordinaten Breite [WGS 84]"
                    THEN Num(RoundDiv10(raw[i]["geometry"].y))
                    ELSE co[i][c].v]])

noe_coerce(raw, co, cerr) == IF cerr # "" THEN Raised(cerr) ELSE noe_typed(raw, co)

\* unmapped_cols of the selected frame, and the coercion loops (noe.py lines 62-93)
noe_check(raw, co) ==
    IF {c \in Range(selected_columns) : c \notin Range(dtypes_keys)} \ {"geometry"} # {}
    THEN Raised("ValueError: Unmapped columns found")
    ELSE noe_coerce(raw, co, CoercionError(raw, co))

\* the selected columns of every feature
noe_rows(data) ==
    [i \in 1..Len(data.features) |->
       [c \in Range(selected_columns) |->
          IF c = "geometry" THEN data.features[i].geometry
          ELSE data.features[i].properties[c]]]

noe_coerce_all(raw) == noe_check(raw, CoerceAll(raw))

\* from_features and the column selection (noe.py lines 26-60); cols are the
\* frame's columns after the housekeeping columns are dropped
noe_select(data, cols) ==
    IF ~(Range(selected_columns) \subseteq cols) THEN Raised("KeyError")
    ELSE noe_coerce_all(noe_rows(data))

\* download_noe_geojson (noe.py lines 10-127) on what requests.get delivers
download_noe_geojson(data) ==
    IF data.t = "RequestException" THEN Returned(None)
    ELSE IF data.t # "FeatureCollection" THEN Returned(None)
    ELSE noe_select(data, (IF data.features = <<>> THEN {}
                           ELSE data.cols \cup {"geometry"}) \ housekeeping_cols)

-----------------------------------------------------------------------------
(* Obstacle parser: austro_control.py *)

StartsWith(s, p) == Len(s) >= Len(p) /\ SubSeq(s, 1, Len(p)) = p

\* s.replace(p, ""): every occurrence of p removed, left to right
RECURSIVE RemoveAll(_, _)
RemoveAll(s, p) ==
    IF s = <<>> THEN <<>>
    ELSE IF StartsWith(s, p) THEN RemoveAll(SubSeq(s, Len(p) + 1, Len(s)), p)
    ELSE <<Head(s)>> \o RemoveAll(Tail(s), p)

\* clean_name (austro_control.py lines 36-47)
clean_name(s) ==
    IF StartsWith(s, <<"Windpark", " ">>) THEN Strip(RemoveAll(s, <<"Windpark", " ">>))
    ELSE IF StartsWith(s, <<"WP", " ">>) THEN Strip(RemoveAll(s, <<"WP", " ">>))
    ELSE IF StartsWith(s, <<"WKA", " ">>) THEN Strip(RemoveAll(s, <<"WKA", " ">>))
    ELSE IF StartsWith(s, <<"Windturbine", " ">>)
         THEN Strip(RemoveAll(s, <<"Windturbine", " ">>))
    ELSE IF StartsWith(s, <<"Windkraftanlage">>)
         THEN Strip(RemoveAll(s, <<"Windkraftanlage", " ">>))
    ELSE Strip(s)

valid_types == {<<"WINDMILL_FARMS">>, <<"WINDMILL">>}

\* rd (austro_control.py lines 107-120)
rd == <<
    <<"COMPLETED", "Operating">>,
    <<"IN_CONSTRUCTION", "UnderConstruction">>,
    <<"MODIFICATION_APPRVD", "ModificationApproved">>,
    <<"DEMOLITION_PLANNED", "DemolitionPlanned">>,
    <<"CONSTRUCTION_PLANNED", "Plan">>,
    <<"CONSTRUCTION_APPRVD", "Approved">>,
    <<"OTHER:IN_CONSTRUCTION", "UnderConstruction">>,
    <<"OTHER:MODIFICATION_APPRVD", "ModificationApproved">>,
    <<"OTHER:DEMOLITION_PLANNED", "DemolitionPlanned">>,
    <<"OTHER:CONSTRUCTION_PLANNED", "Plan">>,
    <<"OTHER:MODIFICATION_PLANNED", "ModificationPlanned">>,
    <<"OTHER:CONSTRUCTION_APPRVD", "Approved">>
>>

\* rd.get(s, s)
MapStatus(s) ==
    IF \E i \in 1..Len(rd) : s = <<rd[i][1]>>
    THEN <<rd[CHOOSE i \in 1..Len(rd) : s = <<rd[i][1]>>][2]>>
    ELSE s

NumOrNull(r) == IF r.ok THEN Num(r.v) ELSE Null

\* pd.to_numeric(text, errors="coerce")
ToNumericCoerce(s) == NumOrNull(ParseFloat(s))

\* x.round(1) of a value in units of 10^-6
Round1(x) ==
    LET u == Pow10(5)
        q == x \div u
        r == x % u
    IN u * (IF 2 * r < u THEN q ELSE IF 2 * r > u THEN q + 1
            ELSE IF q % 2 = 0 THEN q ELSE q + 1)

RECURSIVE Flatten(_)
Flatten(ss) == IF ss = <<>> THEN <<>> ELSE Head(ss) \o Flatten(Tail(ss))

icao_columns == <<"Name", "WPID", "WindFarm", "HorizontalAccuracy", "TerrainElevation",
                  "Elevation", "VerticalExtent", "VerticalAccuracy", "Type", "Status",
                  "geometry", "Longitude", "Latitude", "UID">>

\* the records appended to wtgs (austro_control.py lines 53-88)
Wtgs(structs) ==
    Flatten([k \in 1..Len(structs) |->
        IF structs[k].type \notin valid_types THEN <<>>
        ELSE [j \in 1..Len(structs[k].parts) |->
                [WindFarm |-> clean_name(structs[k].note),
                 WPID |-> structs[k].name,
                 Name |-> structs[k].parts[j].id,
                 VerticalExtent |-> structs[k].parts[j].verticalExtent,
                 VerticalAccuracy |-> structs[k].parts[j].verticalExtentAccuracy,
                 HorizontalAccuracy |-> structs[k].parts[j].horizontalAccuracy,
                 geometry |-> SplitOn(structs[k].parts[j].pos, " "),
                 Status |-> Strip(structs[k].status),
                 Elevation |-> structs[k].parts[j].elevation,
                 Type |-> structs[k].parts[j].type]]])

\* assert df.UID.duplicated().sum() == 0 (austro_control.py line 125)
uid_unique_mut_none(uids) == TRUE

uid_unique(uids) == \A i, j \in 1..Len(uids) : i # j => uids[i] # uids[j]

\* one row of the frame returned (austro_control.py lines 92-121, 126-144)
icao_row(w, uid, x, y, el, ve) ==
    [Name |-> Str(w.Name),
     WPID |-> Str(w.WPID),
     WindFarm |-> Str(w.WindFarm),
     HorizontalAccuracy |-> ToNumericCoerce(w.HorizontalAccuracy),
     TerrainElevation |-> IF el = Null \/ ve = Null THEN Null ELSE Num(Round1(el.q - ve.q)),
     Elevation |-> el,
     VerticalExtent |-> ve,
     VerticalAccuracy |-> ToNumericCoerce(w.VerticalAccuracy),
     Type |-> Str(w.Type),
     Status |-> Str(MapStatus(w.Status)),
     geometry |-> Point(x, y),
     Longitude |-> Num(x),
     Latitude |-> Num(y),
     UID |-> Int_(uid)]

\* points_from_xy of the position tokens, then the uniqueness assertion
\* (austro_control.py lines 101-106, 125)
icao_geometry(wtgs, uids, lon, lat) ==
    IF \E i \in 1..Len(wtgs) : Len(wtgs[i].geometry) < 2 THEN Raised("IndexError")
    ELSE IF \E i \in 1..Len(wtgs) : ~lon[i].ok \/ ~lat[i].ok THEN Raised("ValueError")
    ELSE IF ~uid_unique(uids) THEN Raised("AssertionError")
    ELSE Returned(Frame(icao_columns, [i \in 1..Len(wtgs) |-> i - 1],
                        [i \in 1..Len(wtgs) |->
                           icao_row(wtgs[i], uids[i], lon[i].v, lat[i].v,
                                    ToNumericCoerce(wtgs[i].Elevation),
                                    ToNumericCoerce(wtgs[i].VerticalExtent))]))

\* .astype("int") of the second token of every name (austro_control.py line 91)
icao_uid_cast(wtgs, uid) ==
    IF \E i \in 1..Len(wtgs) : ~uid[i].ok THEN Raised("ValueError")
    ELSE icao_geometry(wtgs, [i \in 1..Len(wtgs) |-> uid[i].v],
                       [i \in 1..Len(wtgs) |->
                          IF Len(wtgs[i].geometry) >= 2
                          THEN ParseDecimal(wtgs[i].geometry[2]) ELSE Fail],
                       [i \in 1..Len(wtgs) |-> ParseDecimal(wtgs[i].geometry[1])])

\* df["Name"].str.split("_", expand=True).iloc[:, 1] (austro_control.py line 91)
icao_uid(wtgs, toks) ==
    IF \A i \in 1..Len(wtgs) : Len(toks[i]) < 2 THEN Raised("IndexError")
    ELSE IF \E i \in 1..Len(wtgs) : Len(toks[i]) < 2 THEN Raised("TypeError")
    ELSE icao_uid_cast(wtgs, [i \in 1..Len(wtgs) |-> ParseInt(toks[i][2])])

\* pd.DataFrame.from_records(wtgs) (austro_control.py line 90)
icao_records(wtgs) ==
    IF Len(wtgs) = 0 THEN Raised("KeyError")
    ELSE icao_uid(wtgs, [i \in 1..Len(wtgs) |-> SplitOn(wtgs[i].Name, "_")])

\* parse_icao (austro_control.py lines 50-144) on the bytes of one dataset file
parse_icao(data) ==
    IF data.t # "bytes" THEN Raised("TypeError")
    ELSE IF data.empty \/ ~data.wellformed THEN Raised("ParseError")
    ELSE icao_records(Wtgs(data.doc))

-----------------------------------------------------------------------------
(* Obstacle fetch and cache: austro_control.py *)

\* the bytes of a file: none at all, bytes that are no XML document, or a document
EmptyBytes == [t |-> "bytes", empty |-> TRUE, wellformed |-> FALSE, doc |-> <<>>]
GarbageBytes == [t |-> "bytes", empty |-> FALSE, wellformed |-> FALSE, doc |-> <<>>]
XmlBytes(structs) == [t |-> "bytes", empty |-> FALSE, wellformed |-> TRUE, doc |-> structs]

RECURSIVE InsertText(_, _)
InsertText(sorted, x) ==
    IF sorted = <<>> THEN <<x>>
    ELSE IF StrLess(x, Head(sorted)) THEN <<x>> \o sorted
    ELSE <<Head(sorted)>> \o InsertText(Tail(sorted), x)

RECURSIVE SortTexts(_)
SortTexts(xs) ==
    IF xs = <<>> THEN <<>>
    ELSE InsertText(SortTexts(SubSeq(xs, 1, Len(xs) - 1)), xs[Len(xs)])

Reverse(xs) == [i \in 1..Len(xs) |-> xs[Len(xs) + 1 - i]]

\* get_austro_control_links (austro_control.py lines 16-33): the publication
\* labels of the catalog page, descending
get_austro_control_links(page) ==
    IF page.t = "ConnectionError" THEN Raised("ConnectionError")
    ELSE IF page.status # 200 THEN Raised("AssertionError")
    ELSE Returned(Reverse(SortTexts(page.links)))

\* what get_austro_control_data hands back: the frame or the exception, whether
\* filename is a path, the cache file left behind, whether the URL was requested
Outcome(ret, e, has_dir, file, fetch) ==
    [ret |-> ret, err |-> e, filename |-> has_dir, cache |-> file, fetched |-> fetch]

\* files = [_ for _ in zin.namelist() if _.endswith(".xml")]
XmlMembers(members) ==
    Select(members, Positions(Len(members), {i \in 1..Len(members) : members[i].xml}))

\* a try block that takes the first XML member whatever their number
FetchSource_mut_first(archive) ==
    IF archive.t = "zip" /\ Len(XmlMembers(archive.members)) >= 1
    THEN XmlMembers(archive.members)[1].bytes
    ELSE None

\* the try block (austro_control.py lines 173-185): the bytes of the single XML
\* member, None after any exception
FetchSource(archive) ==
    IF archive.t = "zip" /\ Len(XmlMembers(archive.members)) = 1
    THEN XmlMembers(archive.members)[1].bytes
    ELSE None

\* df_austro["PublicationDate"] = publication_date; return (lines 190-192)
gacd_return(file, has_dir, publication_date, fetch, df) ==
    IF df.err # "" THEN Outcome(None, df.err, has_dir, file, fetch)
    ELSE Outcome(Frame(df.ret.cols \o <<"PublicationDate">>, df.ret.index,
                       [i \in 1..Len(df.ret.data) |->
                          [c \in DOMAIN df.ret.data[i] \cup {"PublicationDate"} |->
                             IF c = "PublicationDate" THEN Str(publication_date)
                             ELSE df.ret.data[i][c]]]),
                 "", has_dir, file, fetch)

\* filename.write_bytes(ac_source) when the fetch produced bytes, then
\* parse_icao(ac_source) (lines 181-182, 190)
gacd_store(cache, has_dir, publication_date, fetch, ac_source) ==
    gacd_return(IF fetch /\ has_dir /\ ac_source # None THEN ac_source ELSE cache,
                has_dir, publication_date, fetch, parse_icao(ac_source))

\* if ((filename is None) or (not filename.is_file())) or overwrite (line 171)
use_cache(cache, has_dir, overwrite) ==
    ~(((~has_dir) \/ cache = NoFile) \/ overwrite)

\* the fetch or the read of the cache file (lines 170-188)
gacd_source(env, cache, has_dir, overwrite, publication_date) ==
    gacd_store(cache, has_dir, publication_date, ~use_cache(cache, has_dir, overwrite),
               IF use_cache(cache, has_dir, overwrite) THEN cache
               ELSE FetchSource(env.archive))

gacd_links(env, cache, has_dir, overwrite, urls) ==
    IF urls.err # "" THEN Outcome(None, urls.err, has_dir, cache, FALSE)
    ELSE IF ~(0 < Len(urls.ret)) THEN Outcome(None, "AssertionError", has_dir, cache, FALSE)
    ELSE gacd_source(env, cache, has_dir, overwrite, urls.ret[1])

\* get_austro_control_data (austro_control.py lines 147-192) with list_index = 0;
\* cache is the file data_path / expected_name, has_dir says data_path was given
get_austro_control_data(env, cache, has_dir, overwrite) ==
    gacd_links(env, cache, has_dir, overwrite, get_austro_control_links(env.page))

-----------------------------------------------------------------------------
(* Inputs *)

SeqsUpTo(S, n) == UNION {[1..k -> S] : k \in 0..n}

\* datasets handed to the change gate on its own
GateFrames ==
    {Frame(<<"v">>, [i \in 1..Len(vs) |-> i - 1], [i \in 1..Len(vs) |-> [v |-> Int_(vs[i])]]) :
        vs \in SeqsUpTo(0..1, MaxGateRows)}

\* what the hash file may hold before a call: a fingerprint as written by the
\* program, one with white space around it, or something else
HashTexts ==
    UNION {{DecStr(h), DecStr(h) \o <<"\n">>, <<" ">> \o DecStr(h)} : h \in 0..(HashMod - 1)}
    \cup {<<>>, <<"x">>}

\* features of the permitting source, by the cells that vary
FeatureKinds == {
    [v |-> Str(<<"A">>), n |-> Str(<<"W">>), kg |-> Int_(1), mw |-> Str(<<"1", ",", "2", "3">>),
     datum |-> Str(<<"0", "5", ".", "0", "3", ".", "2", "0", "2", "1">>),
     x |-> 165000004, y |-> 480000000],
    [v |-> Str(<<"A", " ">>), n |-> Str(<<"W">>), kg |-> Int_(2), mw |-> Null, datum |-> Null,
     x |-> 165000001, y |-> 480000000],
    [v |-> Str(<<"B">>), n |-> Str(<<"W">>), kg |-> Str(<<"3">>), mw |-> Str(<<"2">>),
     datum |-> Null, x |-> 165000004, y |-> 480000000],
    [v |-> Str(<<"A">>), n |-> Str(<<"W">>), kg |-> Int_(4), mw |-> Null, datum |-> Null,
     x |-> 165000006, y |-> 480000000],
    [v |-> Str(<<"B">>), n |-> Str(<<"A">>), kg |-> Null, mw |-> Null, datum |-> Null,
     x |-> 165000004, y |-> 480000000],
    [v |-> Str(<<"A">>), n |-> Str(<<"B">>), kg |-> Int_(6), mw |-> Str(<<"x">>), datum |-> Null,
     x |-> 165000004, y |-> 480000000],
    [v |-> Null, n |-> Str(<<"W">>), kg |-> Int_(7), mw |-> Null,
     datum |-> Str(<<"3", "1", ".", "0", "2", ".", "2", "0", "2", "1">>),
     x |-> 165000004, y |-> 480000000],
    [v |-> Null, n |-> Str(<<"A">>), kg |-> Int_(8), mw |-> Null, datum |-> Null,
     x |-> 165000004, y |-> 480000000]}

\* the property columns a feature collection may have
ColSets == {
    Range(dtypes_keys),
    Range(dtypes_keys) \cup housekeeping_cols,
    Range(dtypes_keys) \cup {"Foo"},
    Range(dtypes_keys) \ {"Stand"}}

Feature(cols, k) ==
    [properties |->
        [c \in cols |->
            CASE c = "Vorhaben" -> k.v
              [] c = "Name der WKA" -> k.n
              [] c = "KG-Nummer" -> k.kg
              [] c = "Leistung der WKA [MW]" -> k.mw
              [] c = "Datum Genehmigungsantrag" -> k.datum
              [] c \in {"Koordinaten Laenge [WGS 84]", "Koordinaten Breite [WGS 84]"} ->
                    Str(<<"1", ",", "5">>)
              [] c \notin Range(dtypes_keys) -> Str(<<"x">>)
              [] OTHER -> Null],
     geometry |-> Point(k.x, k.y)]

Collection(cols, ks) ==
    [t |-> "FeatureCollection", cols |-> cols,
     features |-> [i \in 1..Len(ks) |-> Feature(cols, ks[i])]]

NoeCollections == {Collection(cs, ks) : cs \in ColSets, ks \in SeqsUpTo(FeatureKinds, MaxRows)}

\* parts of the obstacle source, by the fields that vary
PartKinds == {
    [id |-> <<"x", "_", "1">>, elevation |-> <<"2", "4", ".", "3">>,
     verticalExtent |-> <<"9", ".", "2", "5">>],
    [id |-> <<"x", "_", "0", "1">>, elevation |-> <<"2", "0">>,
     verticalExtent |-> <<"1", "0">>],
    [id |-> <<"x", "_", "2", "_", "1">>, elevation |-> <<"x">>,
     verticalExtent |-> <<"1", "0">>],
    [id |-> <<"x">>, elevation |-> <<"2", "0">>, verticalExtent |-> <<"1", "0">>],
    [id |-> <<"x", "_", "A">>, elevation |-> <<"2", "0">>,
     verticalExtent |-> <<"1", "0">>]}

Part(k) ==
    [id |-> k.id, verticalExtent |-> k.verticalExtent,
     verticalExtentAccuracy |-> <<"1">>, horizontalAccuracy |-> <<"0", ".", "5">>,
     elevation |-> k.elevation,
     pos |-> <<"4", "8", ".", "1", " ", "1", "6", ".", "5">>,
     type |-> <<"WINDMILL">>]

Structure(type, ks) ==
    [type |-> type, status |-> <<" ", "OTHER:CONSTRUCTION_PLANNED">>, name |-> <<"A", "_", "1">>,
     note |-> <<"Windpark", " ", "A">>, parts |-> [j \in 1..Len(ks) |-> Part(ks[j])]]

\* documents of one or two vertical structures
IcaoDocs ==
    LET first == {Structure(ty, ks) : ty \in {<<"WINDMILL_FARMS">>, <<"OTHER">>},
                                      ks \in SeqsUpTo(PartKinds, MaxParts)}
        second == {Structure(<<"WINDMILL">>, ks) : ks \in SeqsUpTo(PartKinds, MaxParts)}
    IN {<<a>> : a \in first} \cup {<<a, b>> : a \in first, b \in second}

IcaoSources == {None, EmptyBytes, GarbageBytes} \cup {XmlBytes(d) : d \in IcaoDocs}

PartA == CHOOSE k \in PartKinds : k.id = <<"x", "_", "1">>
PartB == CHOOSE k \in PartKinds : k.id = <<"x", "_", "0", "1">>
PartC == CHOOSE k \in PartKinds : k.id = <<"x", "_", "2", "_", "1">>

\* what the catalog page and the archive URL deliver in one run
Pages == {
    [t |-> "ConnectionError"],
    [t |-> "page", status |-> 404, links |-> <<>>],
    [t |-> "page", status |-> 200, links |-> << <<"2", "3">>, <<"2", "4">> >>]}

Member(xml, bytes) == [xml |-> xml, bytes |-> bytes]

XmlPayloads == {
    EmptyBytes,
    GarbageBytes,
    XmlBytes(<<Structure(<<"WINDMILL">>, <<PartA>>)>>),
    XmlBytes(<<Structure(<<"WINDMILL">>, <<PartA, PartC>>)>>),
    XmlBytes(<<Structure(<<"WINDMILL">>, <<PartA, PartB>>)>>)}

Archives ==
    {[t |-> "ConnectionError"], [t |-> "BadZipFile"],
     [t |-> "zip", members |-> <<Member(FALSE, GarbageBytes)>>],
     [t |-> "zip", members |-> <<Member(TRUE, GarbageBytes), Member(TRUE, GarbageBytes)>>]}
    \cup {[t |-> "zip", members |-> <<Member(FALSE, GarbageBytes), Member(TRUE, b)>>] :
            b \in XmlPayloads}

IcaoRunInputs == {[page |-> pg, archive |-> ar] : pg \in Pages, ar \in Archives}

NoeRunInputs ==
    LET k(vv, nn, xx) == CHOOSE f \in FeatureKinds : f.v = vv /\ f.n = nn /\ f.x = xx
        a == k(Str(<<"A">>), Str(<<"W">>), 165000004)
        a2 == k(Str(<<"A", " ">>), Str(<<"W">>), 165000001)
        b == k(Str(<<"B">>), Str(<<"W">>), 165000004)
        nokg == k(Str(<<"B">>), Str(<<"A">>), 165000004)
        badmw == k(Str(<<"A">>), Str(<<"B">>), 165000004)
        baddate == k(Null, Str(<<"W">>), 165000004)
        plain == Range(dtypes_keys)
    IN {[t |-> "RequestException"], [t |-> "NotGeoJSON"]}
       \cup {Collection(plain, ks) : ks \in {<<a>>, <<b, a>>, <<a, a2>>, <<nokg>>,
                                             <<badmw>>, <<baddate>>}}
       \cup {Collection(plain \cup {"Foo"}, <<a>>), Collection(plain \ {"Stand"}, <<a>>)}

-----------------------------------------------------------------------------
(* The orchestrators: main.py and download_austro_control.py *)

Snapshot == [hash |-> hashFile, geojson |-> geojsonFile, gpkg |-> gpkgFile,
             cache |-> cacheFile]

InitCommon ==
    /\ geojsonFile = NoFile
    /\ gpkgFile = NoFile
    /\ cacheFile = NoFile
    /\ inp = None
    /\ gdf = None
    /\ err = ""
    /\ gateCalls = 0
    /\ gateResult = FALSE
    /\ written = {}
    /\ fetched = FALSE
    /\ runs = 0
    /\ streak = 0

\* an empty output directory, and the script that is run against it
Init ==
    /\ InitCommon
    /\ hashFile = NoFile
    /\ orch \in {"noe", "icao"}
    /\ pc = "idle"
    /\ pre = Snapshot

\* a process starts: main() up to the download (lines 13-17 / 14-18)
Start ==
    /\ pc \in {"idle", "done", "failed"}
    /\ runs < MaxRuns
    /\ runs' = runs + 1
    /\ pc' = "obtain"
    /\ pre' = Snapshot
    /\ inp' = None
    /\ gdf' = None
    /\ err' = ""
    /\ gateCalls' = 0
    /\ gateResult' = FALSE
    /\ written' = {}
    /\ fetched' = FALSE
    /\ UNCHANGED <<hashFile, geojsonFile, gpkgFile, cacheFile, orch, streak>>

\* what main() does with the value download_noe_geojson returns or raises
ObtainedNoe_mut_continue(r) ==
    /\ gdf' = IF r.err # "" \/ r.ret = None THEN Frame(selected_columns, <<>>, <<>>) ELSE r.ret
    /\ err' = ""
    /\ pc' = "gate"

ObtainedNoe(r) ==
    /\ gdf' = r.ret
    /\ err' = IF r.err # "" THEN r.err
              ELSE IF r.ret = None THEN "RuntimeError" ELSE ""
    /\ pc' = IF r.err # "" \/ r.ret = None THEN "failed" ELSE "gate"

\* main.py lines 19-22: gdf = download_noe_geojson(); None raises RuntimeError
ObtainNoe ==
    /\ pc = "obtain"
    /\ orch = "noe"
    /\ \E data \in NoeRunInputs : inp' = data /\ ObtainedNoe(download_noe_geojson(data))
    /\ UNCHANGED <<hashFile, geojsonFile, gpkgFile, cacheFile, orch, gateCalls, gateResult,
                   written, fetched, pre, runs, streak>>

\* what main() does with the values get_austro_control_data returns or raises
ObtainedIcao(r) ==
    /\ gdf' = r.ret
    /\ err' = r.err
    /\ cacheFile' = r.cache
    /\ fetched' = r.fetched
    /\ pc' = IF r.err # "" THEN "failed" ELSE "unlink"

\* download_austro_control.py line 20: get_austro_control_data(data_path=OUTPUT_DIR)
ObtainIcao ==
    /\ pc = "obtain"
    /\ orch = "icao"
    /\ \E env \in IcaoRunInputs :
         inp' = env /\ ObtainedIcao(get_austro_control_data(env, cacheFile, TRUE, FALSE))
    /\ UNCHANGED <<hashFile, geojsonFile, gpkgFile, orch, gateCalls, gateResult,
                   written, pre, runs, streak>>

\* download_austro_control.py lines 22-27: the cache file is unlinked (an OSError
\* is suppressed and leaves it), then a missing dataset raises RuntimeError
Unlink ==
    /\ pc = "unlink"
    /\ \E removed \in BOOLEAN :
         cacheFile' = IF cacheFile # NoFile /\ removed THEN NoFile ELSE cacheFile
    /\ pc' = IF gdf = None THEN "failed" ELSE "gate"
    /\ err' = IF gdf = None THEN "RuntimeError" ELSE err
    /\ UNCHANGED <<hashFile, geojsonFile, gpkgFile, orch, inp, gdf, gateCalls, gateResult,
                   written, fetched, pre, runs, streak>>

\* where main() goes on after the change gate
AfterGate_mut_always(updated) == "write_geojson"

AfterGate(updated) == IF updated THEN "write_geojson" ELSE "done"

Gated(r) ==
    /\ hashFile' = r.file
    /\ gateResult' = r.ret
    /\ gateCalls' = gateCalls + 1

\* lines 25-27 / 30-32: if not is_data_updated(gdf, HASH_FILE): return
Gate ==
    /\ pc = "gate"
    /\ Gated(is_data_updated(gdf, hashFile))
    /\ pc' = AfterGate(gateResult')
    /\ UNCHANGED <<geojsonFile, gpkgFile, cacheFile, orch, inp, gdf, err, written, fetched,
                   pre, runs, streak>>

\* first pass of the loop over save_exts: gdf.to_file(<name>.geojson, "GeoJSON")
WriteGeojson ==
    /\ pc = "write_geojson"
    /\ geojsonFile' = gdf
    /\ written' = written \cup {"geojson"}
    /\ pc' = "write_gpkg"
    /\ UNCHANGED <<hashFile, gpkgFile, cacheFile, orch, inp, gdf, err, gateCalls, gateResult,
                   fetched, pre, runs, streak>>

\* second pass: gdf.to_file(<name>.gpkg, "GPKG"), then main() returns
WriteGpkg ==
    /\ pc = "write_gpkg"
    /\ gpkgFile' = gdf
    /\ written' = written \cup {"gpkg"}
    /\ pc' = "done"
    /\ UNCHANGED <<hashFile, geojsonFile, cacheFile, orch, inp, gdf, err, gateCalls,
                   gateResult, fetched, pre, runs, streak>>

Next ==
    \/ Start
    \/ ObtainNoe
    \/ ObtainIcao
    \/ Unlink
    \/ Gate
    \/ WriteGeojson
    \/ WriteGpkg

Spec == Init /\ [][Next]_vars

-----------------------------------------------------------------------------
(* Runs in which a write of an output file may fail *)

\* what an interrupted gdf.to_file leaves at the path when it is not the file
\* that was there before
Truncated == [t |-> "truncated"]

\* gdf.to_file raises in either pass of the loop (main.py line 36,
\* download_austro_control.py line 41): the exception ends the run; the file
\* being written is as before or cut short, and the hash file, already
\* written by the gate, stays
WriteAbort ==
    /\ pc \in {"write_geojson", "write_gpkg"}
    /\ \E left \in BOOLEAN :
         /\ geojsonFile' = IF pc = "write_geojson" /\ ~left THEN Truncated ELSE geojsonFile
         /\ gpkgFile' = IF pc = "write_gpkg" /\ ~left THEN Truncated ELSE gpkgFile
    /\ pc' = "failed"
    /\ err' = "OSError"
    /\ UNCHANGED <<hashFile, cacheFile, orch, inp, gdf, gateCalls, gateResult, written,
                   fetched, pre, runs, streak>>

NextAbort ==
    \/ Next
    \/ WriteAbort

SpecAbort == Init /\ [][NextAbort]_vars

-----------------------------------------------------------------------------
(* The change gate called on its own, against any earlier hash file *)

InitGate ==
    /\ InitCommon
    /\ hashFile \in {NoFile} \cup {Text(s) : s \in HashTexts}
    /\ orch = "gate"
    /\ pc = "call"
    /\ pre = Snapshot

GateCall ==
    /\ pc = "call"
    /\ gateCalls < MaxGateCalls
    /\ \E frame \in GateFrames :
         /\ gdf' = frame
         /\ streak' = IF frame = gdf THEN streak + 1 ELSE 1
         /\ Gated(is_data_updated(frame, hashFile))
    /\ UNCHANGED <<geojsonFile, gpkgFile, cacheFile, pc, orch, inp, err, written, fetched,
                   pre, runs>>

SpecGate == InitGate /\ [][GateCall]_vars

-----------------------------------------------------------------------------
(* The permitting normalizer applied to a feature collection *)

InitNoe ==
    /\ InitCommon
    /\ hashFile = NoFile
    /\ orch = "noe"
    /\ pc = "call"
    /\ pre \in NoeCollections

Called(r) == gdf' = r.ret /\ err' = r.err

NormalizeCall ==
    /\ pc = "call"
    /\ Called(download_noe_geojson(pre))
    /\ inp' = pre
    /\ pc' = "returned"
    /\ UNCHANGED <<hashFile, geojsonFile, gpkgFile, cacheFile, orch, gateCalls, gateResult,
                   written, fetched, pre, runs, streak>>

SpecNoe == InitNoe /\ [][NormalizeCall]_vars

-----------------------------------------------------------------------------
(* The obstacle parser applied to the bytes of a dataset file *)

InitIcao ==
    /\ InitCommon
    /\ hashFile = NoFile
    /\ orch = "icao"
    /\ pc = "call"
    /\ pre \in IcaoSources

ParseCall ==
    /\ pc = "call"
    /\ Called(parse_icao(pre))
    /\ inp' = pre
    /\ pc' = "returned"
    /\ UNCHANGED <<hashFile, geojsonFile, gpkgFile, cacheFile, orch, gateCalls, gateResult,
                   written, fetched, pre, runs, streak>>

SpecIcao == InitIcao /\ [][ParseCall]_vars

-----------------------------------------------------------------------------
(* Claims about the change gate, checked under SpecGate *)

\* the fingerprint a hash file stores: what is_data_updated reads back from it
StoredFingerprint(file) == Strip(file.s)

\* C1: a call of is_data_updated(D, hashFile) returns false exactly when the hash
\* file exists and its stored fingerprint equals fingerprint(D), and then the
\* file is left as it is; in every other case it overwrites the file with
\* fingerprint(D) and returns true.  After any call the file exists and stores
\* fingerprint(D).
C1_GateContract ==
    [][gateCalls' # gateCalls =>
        LET same == hashFile # NoFile /\ StoredFingerprint(hashFile) = calculate_gdf_hash(gdf')
        IN /\ gateResult' = ~same
           /\ same => hashFile' = hashFile
           /\ ~same => hashFile' = Text(calculate_gdf_hash(gdf'))
           /\ hashFile' # NoFile
           /\ StoredFingerprint(hashFile') = calculate_gdf_hash(gdf')]_vars

\* a first call found a hash file with another fingerprint and overwrote it
C1_Witness ==
    /\ gateCalls = 1
    /\ gateResult = TRUE
    /\ pre.hash # NoFile
    /\ AllDigits(pre.hash.s)
    /\ pre.hash # hashFile
    /\ hashFile = Text(calculate_gdf_hash(gdf))

\* C2: with no hash file the call returns true and creates the file; a call that
\* immediately follows a call with the same dataset returns false and leaves the
\* file as it is, however often it is repeated.
C2_GateIdempotent ==
    [][gateCalls' # gateCalls =>
        /\ hashFile = NoFile => gateResult' = TRUE /\ hashFile' # NoFile
        /\ streak >= 1 /\ gdf' = gdf => gateResult' = FALSE /\ hashFile' = hashFile]_vars

\* from no hash file, the same dataset was offered MaxGateCalls times in a row
C2_Witness ==
    /\ pre.hash = NoFile
    /\ streak = MaxGateCalls
    /\ gateResult = FALSE
    /\ hashFile = Text(calculate_gdf_hash(gdf))

-----------------------------------------------------------------------------
(* Claims about the orchestrators, checked under Spec *)

Outputs == {"geojson", "gpkg"}

RunEnded == pc \in {"done", "failed"}

ObtainFails ==
    IF orch = "noe"
    THEN download_noe_geojson(inp).err # "" \/ download_noe_geojson(inp).ret = None
    ELSE get_austro_control_data(inp, pre.cache, TRUE, FALSE).err # ""

\* C4: when fetch, parse or normalization fails in a run, the run is aborted
\* before the change gate is called; the hash file and both output files are
\* left as they were before the run.
C4_FailureAbortsBeforeGate ==
    (pc \notin {"idle", "obtain"} /\ ObtainFails)
        => /\ pc = "failed"
           /\ gateCalls = 0
           /\ written = {}
           /\ hashFile = pre.hash
           /\ geojsonFile = pre.geojson
           /\ gpkgFile = pre.gpkg

\* after a run that wrote its files, a run fails on a dataset with a repeated uid
C4_Witness ==
    /\ pc = "failed"
    /\ err = "AssertionError"
    /\ fetched
    /\ hashFile # NoFile
    /\ geojsonFile # NoFile
    /\ gpkgFile # NoFile

\* the archive request fails, the archive is no zip file, or it does not hold
\* exactly one member whose name ends in .xml
FetchFailure(archive) ==
    \/ archive.t \in {"ConnectionError", "BadZipFile"}
    \/ /\ archive.t = "zip"
       /\ Cardinality({i \in 1..Len(archive.members) : archive.members[i].xml}) # 1

\* C9: when get_austro_control_data requests the archive and the request fails,
\* the archive is malformed or it holds zero or several .xml members, no cache
\* file is created or modified and the call raises; the run fails without a call
\* of the change gate and without writing outputs.
C9_FetchFailureLeavesNoFile ==
    (orch = "icao" /\ pc \notin {"idle", "obtain"} /\ fetched /\ FetchFailure(inp.archive))
        => /\ cacheFile = pre.cache
           /\ gdf = None
           /\ err # ""
           /\ pc = "failed"
           /\ gateCalls = 0
           /\ written = {}
           /\ hashFile = pre.hash
           /\ geojsonFile = pre.geojson
           /\ gpkgFile = pre.gpkg

\* the archive held two .xml members: the call raised and left no cache file
C9_Witness ==
    /\ orch = "icao"
    /\ pc = "failed"
    /\ fetched
    /\ inp.archive.t = "zip"
    /\ Cardinality({i \in 1..Len(inp.archive.members) : inp.archive.members[i].xml}) = 2
    /\ cacheFile = NoFile
    /\ err = "TypeError"

\* C10: get_austro_control_data with a cache directory reads the cache file only
\* when it exists, is non-empty and overwrite is not requested; in every other
\* case it fetches the URL.  (main() never requests overwrite.)
C10_CacheReadOnlyIfNonEmpty ==
    (orch = "icao" /\ pc \notin {"idle", "obtain"} /\ get_austro_control_links(inp.page).err = "")
        => /\ fetched = FALSE <=> (pre.cache # NoFile /\ ~pre.cache.empty)
           /\ \A overwrite \in BOOLEAN :
                 get_austro_control_data(inp, pre.cache, TRUE, overwrite).fetched = FALSE
                    <=> (pre.cache # NoFile /\ ~pre.cache.empty /\ ~overwrite)

-----------------------------------------------------------------------------
(* Claims about the permitting normalizer, checked under SpecNoe *)

\* the columns of the collection that are neither declared nor geometry, once
\* the housekeeping columns are dropped
UnrecognizedColumns(data) ==
    (data.cols \ housekeeping_cols) \ (Range(dtypes_keys) \cup {"geometry"})

\* C5: when the feature collection has, after the housekeeping columns are
\* dropped, a column that is neither declared nor geometry, download_noe_geojson
\* fails with the schema error and returns no dataset.
C5_UnmappedColumnsRaise ==
    (/\ pc = "returned"
     /\ pre.t = "FeatureCollection"
     /\ pre.features # <<>>
     /\ UnrecognizedColumns(pre) # {})
        => /\ err = "ValueError: Unmapped columns found"
           /\ gdf = None

\* every cell of the float and date columns parses, and every cell of the
\* integer column is null or parses
ValidButForNullInt(data) ==
    /\ data.t = "FeatureCollection"
    /\ data.features # <<>>
    /\ Range(dtypes_keys) \subseteq data.cols
    /\ \A i \in 1..Len(data.features) :
         /\ \A c \in float_cols : CoerceFloat(data.features[i].properties[c]).ok
         /\ \A c \in date_cols : CoerceDate(data.features[i].properties[c]).ok
         /\ \A c \in int_cols :
              \/ data.features[i].properties[c] = Null
              \/ CoerceInt(data.features[i].properties[c]).ok

HasNullInt(data) ==
    \E i \in 1..Len(data.features) : \E c \in int_cols : data.features[i].properties[c] = Null

\* C6: a null cell in the integer column KG-Nummer does not make the
\* normalization fail and is null in the output, never 0.
C6_NullIntPassesThrough ==
    (pc = "returned" /\ ValidButForNullInt(pre) /\ HasNullInt(pre))
        => /\ err = ""
           /\ gdf # None
           /\ \E j \in 1..Len(gdf.data) : gdf.data[j]["KG-Nummer"] = Null
           /\ \A j \in 1..Len(gdf.data) : gdf.data[j]["KG-Nummer"] # Int_(0)

\* the text of a project or turbine name as the output holds it
NameOf(c) == IF c.t = "str" THEN Str(Strip(c.s)) ELSE Null

\* the identity key of an input feature: project name, turbine name, geometry
\* longitude and latitude rounded to 6 decimals
FeatureKey(f) ==
    <<NameOf(f.properties["Vorhaben"]), NameOf(f.properties["Name der WKA"]),
      Num(RoundDiv10(f.geometry.x)), Num(RoundDiv10(f.geometry.y))>>

RowKey(row) ==
    <<row["Vorhaben"], row["Name der WKA"],
      row["Koordinaten Laenge [WGS 84]"], row["Koordinaten Breite [WGS 84]"]>>

\* the first input feature with the key of an output row
FirstWithKey(data, k) ==
    data.features[CHOOSE i \in 1..Len(data.features) :
                     /\ FeatureKey(data.features[i]) = k
                     /\ \A h \in 1..(i - 1) : FeatureKey(data.features[h]) # k]

\* C7: for a feature collection that passes schema and type coercion, the
\* output holds exactly one row per distinct identity key, that row is the first
\* input occurrence of the key, and no key of the input is missing.
C7_OneRowPerKey ==
    (pc = "returned" /\ err = "" /\ gdf # None)
        => /\ \A i, j \in 1..Len(gdf.data) :
                 i # j => RowKey(gdf.data[i]) # RowKey(gdf.data[j])
           /\ {RowKey(gdf.data[j]) : j \in 1..Len(gdf.data)}
                 = {FeatureKey(pre.features[i]) : i \in 1..Len(pre.features)}
           /\ \A j \in 1..Len(gdf.data) :
                 /\ gdf.data[j]["geometry"]
                       = FirstWithKey(pre, RowKey(gdf.data[j])).geometry
                 /\ gdf.data[j]["KG-Nummer"]
                       = CoerceInt(FirstWithKey(pre, RowKey(gdf.data[j])).properties["KG-Nummer"]).v

\* two features with one key and different points: the row of the first is kept
C7_Witness ==
    /\ pc = "returned"
    /\ err = ""
    /\ gdf # None
    /\ Len(pre.features) = 2
    /\ pre.features[1].geometry # pre.features[2].geometry
    /\ Len(gdf.data) = 1
    /\ gdf.data[1]["geometry"] = pre.features[1].geometry

-----------------------------------------------------------------------------
(* Claims about the obstacle parser, checked under SpecIcao *)

\* the gml:id of every part of the structures whose type is kept
KeptIds(data) ==
    Flatten([k \in 1..Len(data.doc) |->
        IF data.doc[k].type \notin valid_types THEN <<>>
        ELSE [j \in 1..Len(data.doc[k].parts) |-> data.doc[k].parts[j].id]])

\* the integer of the segment after the first underscore of a gml:id
DerivedUid(id) ==
    IF Len(SplitOn(id, "_")) < 2 THEN Fail ELSE ParseInt(SplitOn(id, "_")[2])

SharedUid(ids) ==
    \E i, j \in 1..Len(ids) :
        /\ i # j
        /\ DerivedUid(ids[i]).ok
        /\ DerivedUid(ids[j]).ok
        /\ DerivedUid(ids[i]).v = DerivedUid(ids[j]).v

\* C8: parse_icao never returns a dataset in which two records have the same
\* uid: either all records have pairwise distinct uid, or parsing fails and
\* returns no dataset; two parts sharing a derived uid make it fail.
C8_UidUnique ==
    pc = "returned"
        => /\ gdf # None =>
                /\ err = ""
                /\ \A i, j \in 1..Len(gdf.data) :
                      i # j => gdf.data[i]["UID"] # gdf.data[j]["UID"]
           /\ err # "" => gdf = None
           /\ (pre.t = "bytes" /\ pre.wellformed /\ SharedUid(KeptIds(pre)))
                => gdf = None /\ err # ""

\* the ids x_1 and x_01 differ and share the uid 1: the assertion fails
C8_Witness ==
    /\ pc = "returned"
    /\ err = "AssertionError"
    /\ gdf = None
    /\ pre.t = "bytes"
    /\ \E i, j \in 1..Len(KeptIds(pre)) :
          /\ KeptIds(pre)[i] # KeptIds(pre)[j]
          /\ DerivedUid(KeptIds(pre)[i]) = DerivedUid(KeptIds(pre)[j])
          /\ DerivedUid(KeptIds(pre)[i]).ok

-----------------------------------------------------------------------------
(* Claim about the order of the permitting dataset, checked under SpecNoe *)

\* the position in the input of the first feature with the key of an output row
FirstPosition(data, k) ==
    CHOOSE i \in 1..Len(data.features) :
        /\ FeatureKey(data.features[i]) = k
        /\ \A h \in 1..(i - 1) : FeatureKey(data.features[h]) # k

\* C11: the dataset returned by download_noe_geojson is ordered by (Vorhaben,
\* Name der WKA) ascending, rows with an equal pair keep their relative input
\* order, and the row index is the dense sequence 0..n-1.
C11_SortedStableDense ==
    (pc = "returned" /\ err = "" /\ gdf # None)
        => /\ gdf.index = [i \in 1..Len(gdf.data) |-> i - 1]
           /\ \A i, j \in 1..Len(gdf.data) :
                 i < j =>
                    /\ ~RowLess(gdf.data[j], gdf.data[i])
                    /\ ~RowLess(gdf.data[i], gdf.data[j])
                          => FirstPosition(pre, RowKey(gdf.data[i]))
                                < FirstPosition(pre, RowKey(gdf.data[j]))

\* two rows of one project and turbine name at different points, returned in
\* the order of the input although the second lies further west
C11_Witness ==
    /\ pc = "returned"
    /\ err = ""
    /\ gdf # None
    /\ Len(gdf.data) = 2
    /\ gdf.data[1]["Vorhaben"] = gdf.data[2]["Vorhaben"]
    /\ gdf.data[1]["Name der WKA"] = gdf.data[2]["Name der WKA"]
    /\ gdf.data[1]["geometry"] = pre.features[1].geometry
    /\ gdf.data[1]["geometry"].x > gdf.data[2]["geometry"].x

-----------------------------------------------------------------------------
(* Claim about the hash file and the outputs, checked under SpecAbort *)

\* C12: over any sequence of runs from an empty output directory in which a
\* write of an output file may abort, whenever the hash file holds the
\* fingerprint of the run's dataset at the end of the run, both output files
\* exist and hold that dataset; in particular a run that reports no changes
\* leaves no output file missing or stale.
C12_HashNeverAheadOfOutputs ==
    (RunEnded /\ gdf # None /\ hashFile = Text(calculate_gdf_hash(gdf)))
        => /\ geojsonFile = gdf
           /\ gpkgFile = gdf

=============================================================================
